---- MODULE Spec2Model ----
(***************************************************************************)
(* Model of the Elasticsearch MCP agent (es_langgraph_agent.py), its       *)
(* transport client and the MCP server (es_mcp_server.py).                 *)
(*                                                                         *)
(* Texts (tasks, queries, console lines) are sequences of one-character    *)
(* strings so that lower(), strip() and the substring test `x in s` are    *)
(* computed as Python computes them.  Python dicts are functions whose     *)
(* DOMAIN is the set of keys; `k in d` is `k \in DOMAIN d`.                *)
(* AgentState.thoughts is a write-only log (no step reads it) and is left  *)
(* out of the state.                                                       *)
(***************************************************************************)
EXTENDS Integers, Sequences, FiniteSets, TLC

\* ------------------------------------------------------------------ bounds
MaxPlan == 2      \* longest task list the reasoning step returns
MaxTurns == 2     \* turns the conversation memory may hold
MaxHits == 7      \* longest hit list the backend returns
MaxConns == 2     \* connections the server handles concurrently
MaxPage == 4      \* largest page number fed to get_page_from_results
MaxPageSize == 3  \* largest page_size / max_items fed to the pure functions
MaxLen == 7       \* longest list fed to the pure functions
MaxChunks == 2    \* recv calls a message may take to arrive
MaxCalls == 2     \* send_command calls a client makes

\* --------------------------------------------------------------- constants
DefaultMaxItems == 5
DefaultPageSize == 5
DefaultPage == 2

\* ------------------------------------------------------------ text helpers
NoneText == <<"<None>">>
EmptyText == <<>>

UpperToLower ==
  [c \in {"A","B","C","D","E","F","G","H","I","J","K","L","M",
          "N","O","P","Q","R","S","T","U","V","W","X","Y","Z"} |->
     CASE c = "A" -> "a" [] c = "B" -> "b" [] c = "C" -> "c" [] c = "D" -> "d"
       [] c = "E" -> "e" [] c = "F" -> "f" [] c = "G" -> "g" [] c = "H" -> "h"
       [] c = "I" -> "i" [] c = "J" -> "j" [] c = "K" -> "k" [] c = "L" -> "l"
       [] c = "M" -> "m" [] c = "N" -> "n" [] c = "O" -> "o" [] c = "P" -> "p"
       [] c = "Q" -> "q" [] c = "R" -> "r" [] c = "S" -> "s" [] c = "T" -> "t"
       [] c = "U" -> "u" [] c = "V" -> "v" [] c = "W" -> "w" [] c = "X" -> "x"
       [] c = "Y" -> "y" [] OTHER -> "z"]

LowerChar(c) == IF c \in DOMAIN UpperToLower THEN UpperToLower[c] ELSE c

\* str.lower()
Lower(s) == [i \in 1..Len(s) |-> LowerChar(s[i])]

\* str.strip(): drop leading and trailing blanks
Strip(s) ==
  LET nb == {i \in 1..Len(s) : s[i] # " "}
  IN IF nb = {} THEN EmptyText
     ELSE LET lo == CHOOSE i \in nb : \A j \in nb : i <= j
              hi == CHOOSE i \in nb : \A j \in nb : j <= i
          IN SubSeq(s, lo, hi)

\* Python `x in s` for strings
Contains(s, x) ==
  \E i \in 1..(Len(s) - Len(x) + 1) : SubSeq(s, i, i + Len(x) - 1) = x

\* Python truthiness of Optional[str]
Truthy(t) == t # NoneText /\ t # EmptyText

KwNextPage == <<"n","e","x","t"," ","p","a","g","e">>
KwPage == <<"p","a","g","e">>
KwMoreResults == <<"m","o","r","e"," ","r","e","s","u","l","t","s">>
PaginationKeywords == {KwNextPage, KwPage, KwMoreResults}

\* ------------------------------------------------------------ dict helpers
EmptyDict == [k \in {} |-> TRUE]
Has(d, k) == k \in DOMAIN d
Get(d, k, default) == IF k \in DOMAIN d THEN d[k] ELSE default
Put(d, k, v) == [x \in (DOMAIN d) \cup {k} |-> IF x = k THEN v ELSE d[x]]

Min(a, b) == IF a < b THEN a ELSE b
Max(a, b) == IF a > b THEN a ELSE b

\* Python list slice lst[start:end] (0-based, negative indices from the end)
PySlice(lst, start, end) ==
  LET n == Len(lst)
      s == IF start < 0 THEN Max(n + start, 0) ELSE Min(start, n)
      e == IF end < 0 THEN Max(n + end, 0) ELSE Min(end, n)
  IN IF s >= e THEN <<>> ELSE SubSeq(lst, s + 1, e)

\* ------------------------------------------------- summarization and paging
\* summarize_search_results(results, max_items)
SummarizeMissesComplete(results, max_items) ==
  IF ~ (Has(results, "data") /\ Has(results.data, "hits")
        /\ Has(results.data.hits, "hits"))
  THEN results
  ELSE LET original_hits == results.data.hits.hits
           total_hits == Len(original_hits)
       IN IF total_hits > max_items
          THEN [results EXCEPT !.data =
                 Put(Put([results.data EXCEPT !.hits.hits =
                            PySlice(original_hits, 0, max_items)],
                         "complete_results",
                         PySlice(original_hits, 0, max_items)),
                     "summary",
                     [total_hits |-> total_hits,
                      shown_hits |-> max_items,
                      omitted_hits |-> total_hits - max_items,
                      available_pages |-> (total_hits + max_items - 1) \div max_items,
                      current_page |-> 1])]
          ELSE results

summarize_search_results(results, max_items) ==
  IF ~ (Has(results, "data") /\ Has(results.data, "hits")
        /\ Has(results.data.hits, "hits"))
  THEN results
  ELSE LET original_hits == results.data.hits.hits
           total_hits == Len(original_hits)
       IN IF total_hits > max_items
          THEN [results EXCEPT !.data =
                 Put(Put([results.data EXCEPT !.hits.hits =
                            PySlice(original_hits, 0, max_items)],
                         "complete_results", original_hits),
                     "summary",
                     [total_hits |-> total_hits,
                      shown_hits |-> max_items,
                      omitted_hits |-> total_hits - max_items,
                      available_pages |-> (total_hits + max_items - 1) \div max_items,
                      current_page |-> 1])]
          ELSE results

\* get_page_from_results(complete_results, page, page_size)
PageOffByOne(complete_results, page, page_size) ==
  PySlice(complete_results, page * page_size, page * page_size + page_size)

get_page_from_results(complete_results, page, page_size) ==
  LET start_idx == (page - 1) * page_size
      end_idx == start_idx + page_size
  IN PySlice(complete_results, start_idx, end_idx)

\* ----------------------------------------------------------- tool registry
None == "None"

\* MCPServer.register_tools: name -> description, advertised parameters and
\* handler (the callable, named here; HandlerResult gives what calling it does)
register_tools ==
  [name \in {"health", "indices", "search", "document", "mapping", "list_tools"} |->
     CASE name = "health" ->
            [description |-> "Check Elasticsearch cluster health",
             parameters |-> EmptyDict,
             handler |-> "es_tool.health"]
       [] name = "indices" ->
            [description |-> "List all indices in Elasticsearch",
             parameters |-> EmptyDict,
             handler |-> "es_tool.indices"]
       [] name = "search" ->
            [description |-> "Search for documents in an index",
             parameters |->
               [index |-> "Name of the index to search",
                query |-> "Search query in Elasticsearch DSL format",
                size |-> "Number of results to return (default: 100)",
                from |-> "Starting offset for pagination",
                sort |-> "Sort criteria"],
             handler |-> "es_tool.search"]
       [] name = "document" ->
            [description |-> "Get a specific document by ID",
             parameters |-> [index |-> "Name of the index", id |-> "Document ID"],
             handler |-> "es_tool.document"]
       [] name = "mapping" ->
            [description |-> "Get the mapping for an index",
             parameters |-> [index |-> "Name of the index"],
             handler |-> "es_tool.mapping"]
       [] OTHER ->
            [description |-> "Get list of available tools and their descriptions",
             parameters |-> EmptyDict,
             handler |-> "lambda"]]

\* MCPServer.__init__: self.tools = self.register_tools()
VARIABLE tools

\* keyword arguments each handler's Python signature accepts / requires
HandlerSignature ==
  [name \in DOMAIN register_tools |->
     CASE name = "search" ->
            [accepts |-> {"index", "query", "size", "from_param", "sort"},
             required |-> {"index"}]
       [] name = "document" ->
            [accepts |-> {"index", "doc_id"}, required |-> {"index", "doc_id"}]
       [] name = "mapping" ->
            [accepts |-> {"index"}, required |-> {"index"}]
       [] OTHER -> [accepts |-> {}, required |-> {}]]

\* Python truthiness of a parameter value (None and "" are falsy)
Falsy(v) == v = None \/ v = ""

\* the data a handler returns when the backend answers
EsResult(name, es) ==
  CASE name = "health" -> [elasticsearch |-> [cluster_status |-> "green"]]
    [] name = "indices" -> [listing |-> <<"logs">>]
    [] name = "search" -> [hits |-> [hits |-> es.hits, total |-> Len(es.hits)]]
    [] name = "document" -> [found |-> TRUE]
    [] OTHER -> [mappings |-> "properties"]

\* ElasticsearchTool.health / indices / search / document / mapping:
\* each body is wrapped in try/except and returns its own status record
EsTool(name, params, es) ==
  IF name \in {"search", "mapping"} /\ Falsy(params["index"])
  THEN [status |-> "error", message |-> <<"Index name is required">>]
  ELSE IF name = "document" /\ (Falsy(params["index"]) \/ Falsy(params["doc_id"]))
  THEN [status |-> "error", message |-> <<"Both index and id are required">>]
  ELSE IF ~ es.up
  THEN [status |-> "error", message |-> <<"ConnectionError">>]
  ELSE [status |-> "ok", data |-> EsResult(name, es)]

\* the list_tools lambda: every entry without its handler
ListToolsWithHandler ==
  [available_tools |-> [name \in DOMAIN tools |-> tools[name]]]

list_tools ==
  [available_tools |->
     [name \in DOMAIN tools |->
        [k \in DOMAIN tools[name] \ {"handler"} |-> tools[name][k]]]]

\* tool["handler"](**params): a TypeError when the keywords do not fit the
\* signature, else the handler's return value
HandlerResult(name, params, es) ==
  IF ~ (DOMAIN params \subseteq HandlerSignature[name].accepts
        /\ HandlerSignature[name].required \subseteq DOMAIN params)
  THEN [raised |-> TRUE, message |-> <<"TypeError">>]
  ELSE IF name = "list_tools" THEN list_tools
  ELSE EsTool(name, params, es)

\* MCPServer.handle_client, "Process request": the response for a decoded request
DispatchShortList(request, es) ==
  LET command == Get(request, "command", None)
      params == Get(request, "params", EmptyDict)
  IN IF command \in DOMAIN tools
     THEN LET result == HandlerResult(command, params, es)
          IN IF Has(result, "raised")
             THEN [status |-> "error", message |-> result.message]
             ELSE [status |-> "ok", data |-> result]
     ELSE [status |-> "error",
           message |-> <<"Unknown command: ", command>>,
           available_tools |-> DOMAIN tools \ {"list_tools"}]

Dispatch(request, es) ==
  LET command == Get(request, "command", None)
      params == Get(request, "params", EmptyDict)
  IN IF command \in DOMAIN tools
     THEN LET result == HandlerResult(command, params, es)
          IN IF Has(result, "raised")
             THEN [status |-> "error", message |-> result.message]
             ELSE [status |-> "ok", data |-> result]
     ELSE [status |-> "error",
           message |-> <<"Unknown command: ", command>>,
           available_tools |-> DOMAIN tools]

\* ------------------------------------------------------------ agent inputs
TaskFind == <<"f","i","n","d">>
TaskNextPage == <<"N","e","x","t"," ","P","a","g","e">>
TaskMore == <<"m","o","r","e"," ","r","e","s","u","l","t","s">>
Tasks == {TaskFind, TaskNextPage, TaskMore}

RECURSIVE SeqsUpTo(_, _)
SeqsUpTo(S, n) ==
  IF n = 0 THEN {<<>>}
  ELSE LET shorter == SeqsUpTo(S, n - 1)
       IN shorter \cup {Append(q, x) : q \in {r \in shorter : Len(r) = n - 1}, x \in S}

\* what the reasoning step may return to plan_task: a task list, or text
\* that json.loads / result["tasks"] rejects
ParseFailure == [raised |-> TRUE]
PlanOutputs(room) ==
  {[tasks |-> t] : t \in SeqsUpTo(Tasks, Min(MaxPlan, room))} \cup {ParseFailure}

\* what the reasoning step may return to analyze_query
AnalyzeOutputs ==
  {[command |-> "indices", parameters |-> EmptyDict],
   [command |-> "health", parameters |-> EmptyDict],
   [command |-> "search", parameters |-> [index |-> "logs"]],
   [command |-> "document", parameters |-> [index |-> "logs", id |-> "7"]],
   ParseFailure}

Answers == {"answer"}

LineEmpty == <<>>
LineQuery == <<" ","q">>
LineYes == <<"Y","e","s"," ">>
LineExit == <<"E","x","i","t">>
LineNo == <<"n","o">>
SessionLines == {LineEmpty, LineQuery, LineExit}
FeedbackLines == {LineYes, LineNo}
FollowUpLines == {LineEmpty, LineQuery, LineExit}

ExitTokens == {<<"e","x","i","t">>, <<"q","u","i","t">>, <<"b","y","e">>}
Yes == <<"y","e","s">>

\* hit lists the backend may return: ids base+1 .. base+n
HitList(base, n) == [i \in 1..n |-> base + i]
HitLists == {HitList(0, n) : n \in {DefaultMaxItems, MaxHits - 1, MaxHits}}
Backends == {[up |-> FALSE, hits |-> <<>>]} \cup {[up |-> TRUE, hits |-> h] : h \in HitLists}

\* --------------------------------------------------------- transport client
\* MCPClient.send_command: the value returned to the caller.  The peer is
\* either this repository's server (Dispatch), a peer that answers with
\* the backend's result directly under data (the shape execute_command and
\* summarize_search_results read), or absent (connect/recv raises and the
\* client synthesizes an error).
ClientError == [status |-> "error", message |-> <<"Client error: ", "ConnectionRefusedError">>]
EsCommands == {"health", "indices", "search", "document", "mapping"}
send_command(command, params) ==
  LET request == [command |-> command, params |-> params]
      served == {Dispatch(request, es) : es \in Backends}
      direct == IF command \in EsCommands
                THEN {[status |-> "ok", data |-> EsResult(command, es)] :
                        es \in {b \in Backends : b.up}}
                ELSE {}
  IN served \cup direct \cup {ClientError}

\* ------------------------------------------------------------------- state
VARIABLES
  query, mcp_command, mcp_params, response, answer, memory, context,
  task_list, current_task, task_status,   \* AgentState
  pc,          \* node the workflow runs next, or the session loop's position
  planned,     \* history: the task list the last Plan obtained
  ran,         \* history: current_task of every cycle finished since that Plan
  last_step,   \* history: what the last step did (reasoning / transport / console use)
  conns,       \* server: per accepted connection, handle_client's progress
  listening,   \* server: MCPServer.run is in its accept loop
  calc,        \* a call of one of the pure functions: its arguments and result
  call         \* client: the progress of one MCPClient.send_command call

vars == <<query, mcp_command, mcp_params, response, answer, memory, context,
          task_list, current_task, task_status, pc, planned, ran, last_step,
          conns, listening, calc, call, tools>>

NoResponse == EmptyDict
NoStep == [node |-> "none", llm |-> FALSE, remote |-> FALSE, console |-> <<>>]

\* AgentState(query="") as interactive_session constructs it
AgentInit ==
  /\ query = EmptyText
  /\ mcp_command = None
  /\ mcp_params = EmptyDict
  /\ response = NoResponse
  /\ answer = None
  /\ memory = <<>>
  /\ context = EmptyDict
  /\ task_list = <<>>
  /\ current_task = NoneText
  /\ task_status = "planning"
  /\ pc = "session"
  /\ planned = <<>>
  /\ ran = <<>>
  /\ last_step = NoStep

\* ------------------------------------------------------------ session loop
\* interactive_session, top of the while loop up to app.invoke(state):
\* the workflow's entry point is "plan" whatever task_status holds
SessionTurn ==
  /\ UNCHANGED <<conns, listening, calc, call, tools>>
  /\ pc = "session"
  /\ last_step' = [node |-> "session", llm |-> FALSE, remote |-> FALSE,
                   console |-> IF query = EmptyText THEN <<"input">> ELSE <<>>]
  /\ UNCHANGED <<mcp_command, mcp_params, response, answer, memory, context,
                 task_list, current_task, planned, ran>>
  /\ IF query = EmptyText
     THEN \E line \in SessionLines :
            LET q == Strip(line)
            IN IF Lower(q) \in ExitTokens
               THEN pc' = "exited" /\ UNCHANGED <<query, task_status>>
               ELSE query' = q /\ task_status' = "planning" /\ pc' = "plan"
     ELSE pc' = "plan" /\ UNCHANGED <<query, task_status>>

\* interactive_session after app.invoke returns: print the answer, loop
SessionPrint ==
  /\ UNCHANGED <<conns, listening, calc, call, tools>>
  /\ pc = "END"
  /\ pc' = "session"
  /\ last_step' = [node |-> "print", llm |-> FALSE, remote |-> FALSE,
                   console |-> IF answer # None THEN <<"print answer">> ELSE <<>>]
  /\ UNCHANGED <<query, mcp_command, mcp_params, response, answer, memory,
                 context, task_list, current_task, task_status, planned, ran>>

\* ------------------------------------------------------------------- nodes
\* plan_task, then the edge plan -> analyze
PlanEdge(status) == "analyze"

plan_task ==
  /\ UNCHANGED <<conns, listening, calc, call, tools>>
  /\ pc = "plan"
  /\ Len(memory) < MaxTurns
  /\ \E result \in PlanOutputs(MaxTurns - Len(memory)) :
       IF Has(result, "raised")
       THEN /\ pc' = "crashed"
            /\ last_step' = [node |-> "plan", llm |-> TRUE, remote |-> FALSE, console |-> <<>>]
            /\ UNCHANGED <<task_list, current_task, task_status, planned, ran>>
       ELSE /\ task_status' = IF result.tasks # <<>> THEN "executing" ELSE "done"
            /\ IF result.tasks # <<>>
               THEN current_task' = Head(result.tasks) /\ task_list' = Tail(result.tasks)
               ELSE current_task' = current_task /\ task_list' = <<>>
            /\ planned' = result.tasks
            /\ ran' = <<>>
            /\ pc' = PlanEdge(task_status')
            /\ last_step' = [node |-> "plan", llm |-> TRUE, remote |-> FALSE, console |-> <<>>]
  /\ UNCHANGED <<query, mcp_command, mcp_params, response, answer, memory, context>>

\* the test analyze_query makes on current_task
IndicatesPagination(task) ==
  Truthy(task) /\ \E x \in PaginationKeywords : Contains(Lower(task), x)

ShortCircuitAlways(task, ctx) == IndicatesPagination(task)
ShortCircuit(task, ctx) == IndicatesPagination(task) /\ Has(ctx, "last_search")

\* analyze_query, then the edge analyze -> execute
analyze_query ==
  /\ UNCHANGED <<conns, listening, calc, call, tools>>
  /\ pc = "analyze"
  /\ IF ShortCircuit(current_task, context)
     THEN /\ mcp_command' = "page"
          /\ mcp_params' =
               [page |-> Get(IF Has(context, "last_search")
                             THEN context["last_search"] ELSE EmptyDict,
                             "current_page", 1) + 1]
          /\ pc' = "execute"
          /\ last_step' = [node |-> "analyze", llm |-> FALSE, remote |-> FALSE, console |-> <<>>]
     ELSE \E result \in AnalyzeOutputs :
            /\ last_step' = [node |-> "analyze", llm |-> TRUE, remote |-> FALSE, console |-> <<>>]
            /\ IF Has(result, "raised")
               THEN pc' = "crashed" /\ UNCHANGED <<mcp_command, mcp_params>>
               ELSE /\ mcp_command' = result.command
                    /\ mcp_params' = result.parameters
                    /\ pc' = "execute"
  /\ UNCHANGED <<query, response, answer, memory, context, task_list,
                 current_task, task_status, planned, ran>>

\* the test execute_command makes before serving a page from the cache
ServesFromCache(task, ctx) ==
  /\ Truthy(task) /\ Contains(Lower(task), KwPage)
  /\ Has(ctx, "last_search") /\ Has(ctx["last_search"], "complete_results")

\* the paginated response execute_command builds
PageResponse(complete_results, page) ==
  LET page_results == get_page_from_results(complete_results, page, DefaultPageSize)
  IN [status |-> "ok",
      data |-> [hits |-> [hits |-> page_results, total |-> Len(complete_results)],
                summary |-> [total_hits |-> Len(complete_results),
                             shown_hits |-> Len(page_results),
                             current_page |-> page,
                             available_pages |-> (Len(complete_results) + 4) \div 5]]]

\* execute_command, "Update context based on the command and response"
LastSearchOf(params, summarized) ==
  [index |-> Get(params, "index", None),
   query |-> Get(params, "query", None),
   complete_results |-> summarized.data.complete_results,
   current_page |-> 1]

ContextAfterAnyStatus(ctx, command, params, resp) ==
  IF resp.status # "ok" THEN Put(ctx, "last_error", resp.message)
  ELSE IF command = "indices" THEN Put(ctx, "last_indices", resp.data)
  ELSE IF command = "search"
  THEN LET summarized == summarize_search_results(resp, DefaultMaxItems)
       IN IF Has(summarized.data, "complete_results")
          THEN Put(ctx, "last_search", LastSearchOf(params, summarized))
          ELSE ctx
  ELSE IF command = "document"
  THEN Put(ctx, "last_document",
           [index |-> Get(params, "index", None),
            id |-> Get(params, "id", None),
            content |-> resp.data])
  ELSE ctx

ContextAfter(ctx, command, params, resp) ==
  IF resp.status # "ok" THEN ctx
  ELSE IF command = "indices" THEN Put(ctx, "last_indices", resp.data)
  ELSE IF command = "search"
  THEN LET summarized == summarize_search_results(resp, DefaultMaxItems)
       IN IF Has(summarized.data, "complete_results")
          THEN Put(ctx, "last_search", LastSearchOf(params, summarized))
          ELSE ctx
  ELSE IF command = "document"
  THEN Put(ctx, "last_document",
           [index |-> Get(params, "index", None),
            id |-> Get(params, "id", None),
            content |-> resp.data])
  ELSE ctx

ResponseAfter(command, resp) ==
  IF resp.status = "ok" /\ command = "search"
  THEN summarize_search_results(resp, DefaultMaxItems)
  ELSE resp

\* execute_command, then the edge execute -> format
execute_command ==
  /\ UNCHANGED <<conns, listening, calc, call, tools>>
  /\ pc = "execute"
  /\ IF ServesFromCache(current_task, context)
     THEN /\ response' = PageResponse(context["last_search"].complete_results,
                                      Get(mcp_params, "page", DefaultPage))
          /\ context' = context
          /\ last_step' = [node |-> "execute", llm |-> FALSE, remote |-> FALSE, console |-> <<>>]
     ELSE \E reply \in send_command(mcp_command, mcp_params) :
            /\ response' = ResponseAfter(mcp_command, reply)
            /\ context' = ContextAfter(context, mcp_command, mcp_params, reply)
            /\ last_step' = [node |-> "execute", llm |-> FALSE, remote |-> TRUE, console |-> <<>>]
  /\ pc' = "format"
  /\ UNCHANGED <<query, mcp_command, mcp_params, answer, memory, task_list,
                 current_task, task_status, planned, ran>>

\* the input text format_response saves: the query, tagged with the task
MemoryInputUntagged(task, q) == q

MemoryInput(task, q) ==
  IF ~ Truthy(task) THEN q ELSE <<"[">> \o task \o <<"]", " ">> \o q

\* format_response, then the conditional edge format -> route
StatusAfterFormatEarly(queue) == IF Len(queue) > 1 THEN "executing" ELSE "need_feedback"
StatusAfterFormat(queue) == IF queue # <<>> THEN "executing" ELSE "need_feedback"

format_response ==
  /\ UNCHANGED <<conns, listening, calc, call, tools>>
  /\ pc = "format"
  /\ \E text \in Answers :
       /\ answer' = text
       /\ memory' = Append(memory, [input |-> MemoryInput(current_task, query),
                                    output |-> text])
  /\ task_status' = StatusAfterFormat(task_list)
  /\ IF task_list # <<>>
     THEN current_task' = Head(task_list) /\ task_list' = Tail(task_list)
     ELSE UNCHANGED <<current_task, task_list>>
  /\ ran' = Append(ran, current_task)
  /\ pc' = "route"
  /\ last_step' = [node |-> "format", llm |-> TRUE, remote |-> FALSE, console |-> <<>>]
  /\ UNCHANGED <<query, mcp_command, mcp_params, response, context, planned>>

\* route(state): the node a conditional edge leads to
RouteFeedbackToEnd(status) ==
  CASE status = "planning" -> "plan"
    [] status = "executing" -> "analyze"
    [] status = "continue" -> "plan"
    [] OTHER -> "END"

route(status) ==
  CASE status = "planning" -> "plan"
    [] status = "executing" -> "analyze"
    [] status = "need_feedback" -> "human_feedback"
    [] status = "continue" -> "plan"
    [] OTHER -> "END"

\* the conditional edges format -> route and human_feedback -> route
Route ==
  /\ UNCHANGED <<conns, listening, calc, call, tools>>
  /\ pc = "route"
  /\ pc' = route(task_status)
  /\ last_step' = [node |-> "route", llm |-> FALSE, remote |-> FALSE, console |-> <<>>]
  /\ UNCHANGED <<query, mcp_command, mcp_params, response, answer, memory,
                 context, task_list, current_task, task_status, planned, ran>>

\* get_human_feedback, then the conditional edge human_feedback -> route
get_human_feedback ==
  /\ UNCHANGED <<conns, listening, calc, call, tools>>
  /\ pc = "human_feedback"
  /\ \E line \in FeedbackLines :
       LET feedback == Lower(Strip(line))
       IN IF feedback = Yes
          THEN task_status' = "done" /\ query' = query
          ELSE \E next \in FollowUpLines :
                 query' = Strip(next) /\ task_status' = "continue"
  /\ pc' = "route"
  /\ last_step' = [node |-> "human_feedback", llm |-> FALSE, remote |-> FALSE,
                   console |-> IF task_status' = "done"
                               THEN <<"print question", "input">>
                               ELSE <<"print question", "input",
                                      "print question", "input">>]
  /\ UNCHANGED <<mcp_command, mcp_params, response, answer, memory, context,
                 task_list, current_task, planned, ran>>

AgentNext ==
  \/ SessionTurn
  \/ plan_task
  \/ analyze_query
  \/ execute_command
  \/ format_response
  \/ Route
  \/ get_human_feedback
  \/ SessionPrint

\* ------------------------------------------------------------------ server
ConnIds == 1..MaxConns

\* requests a peer may send (decoded form)
Requests ==
  {[command |-> "health", params |-> EmptyDict],
   [command |-> "indices", params |-> EmptyDict],
   [command |-> "list_tools", params |-> EmptyDict],
   [command |-> "search", params |-> [index |-> "logs"]],
   [command |-> "search", params |-> [index |-> ""]],
   [command |-> "document", params |-> [index |-> "logs", id |-> "7"]],
   [command |-> "document", params |-> [index |-> "logs", doc_id |-> "7"]],
   [command |-> "document", params |-> [index |-> "logs"]],
   [command |-> "search", params |-> [index |-> "logs", from |-> "0"]],
   [command |-> "mapping", params |-> EmptyDict],
   [command |-> "mapping", params |-> [index |-> ""]],
   [command |-> "foo", params |-> EmptyDict]}

\* backends seen by the server's handlers
ServerBackends == {[up |-> FALSE, hits |-> <<>>], [up |-> TRUE, hits |-> HitList(0, 2)]}

\* what a peer puts on the wire: the pickle of a request, the pickle of a
\* value that is no dict, a strict prefix of a pickle, or bytes that are no
\* pickle at all; then it waits for the reply or closes its end
WireKinds == {"complete", "notdict", "truncated", "garbage"}
PeerStates == {"waiting", "closed"}

FreeConn == [st |-> "free", request |-> EmptyDict, es |-> [up |-> TRUE, hits |-> <<>>],
             response |-> NoResponse, wire |-> "none", pending |-> 0,
             peer |-> "none", called |-> None, sent |-> 0]

ServerInit ==
  /\ tools = register_tools
  /\ conns = [c \in ConnIds |-> FreeConn]
  /\ listening = TRUE

\* MCPServer.run: accept a connection and start handle_client in its own thread
AcceptSerial(c) ==
  /\ listening
  /\ \A d \in ConnIds : conns[d].st \in {"free", "closed"}
  /\ conns[c].st = "free"
  /\ \/ \E n \in 1..MaxChunks :
          conns' = [conns EXCEPT ![c] =
                      [FreeConn EXCEPT !.st = "reading",
                                       !.wire = "complete", !.pending = n,
                                       !.peer = "waiting"]]
     \/ \E kind \in WireKinds \ {"complete"}, n \in 0..MaxChunks, p \in PeerStates :
          /\ kind = "notdict" => p = "waiting"
          /\ p = "waiting" => n > 0
          /\ conns' = [conns EXCEPT ![c] =
                         [FreeConn EXCEPT !.st = "reading", !.wire = kind,
                                          !.pending = n, !.peer = p]]
  /\ UNCHANGED <<listening, tools>>

Accept(c) ==
  /\ listening
  /\ conns[c].st = "free"
  /\ \/ \E n \in 1..MaxChunks :
          conns' = [conns EXCEPT ![c] =
                      [FreeConn EXCEPT !.st = "reading",
                                       !.wire = "complete", !.pending = n,
                                       !.peer = "waiting"]]
     \/ \E kind \in WireKinds \ {"complete"}, n \in 0..MaxChunks, p \in PeerStates :
          /\ kind = "notdict" => p = "waiting"
          /\ p = "waiting" => n > 0     \* a peer awaiting a reply has sent bytes
          /\ conns' = [conns EXCEPT ![c] =
                         [FreeConn EXCEPT !.st = "reading", !.wire = kind,
                                          !.pending = n, !.peer = p]]
  /\ UNCHANGED <<listening, tools>>

\* pickle.loads(data) on the bytes received so far: succeeds once a whole
\* pickle has arrived, raises on a prefix and on bytes that are no pickle
Unpickles(kind, outstanding) == kind \in {"complete", "notdict"} /\ outstanding = 0

\* handle_client, receive loop: recv returns a chunk, pickle.loads is tried;
\* on failure the loop goes back to recv, on success `request` is bound
\* (which request the bytes hold shows only now)
Receive(c) ==
  /\ conns[c].st = "reading"
  /\ conns[c].pending > 0
  /\ IF ~ Unpickles(conns[c].wire, conns[c].pending - 1)
     THEN conns' = [conns EXCEPT ![c].pending = @ - 1]
     ELSE IF conns[c].wire = "complete"
     THEN \E req \in Requests :
            conns' = [conns EXCEPT ![c].pending = @ - 1, ![c].st = "decoded",
                                   ![c].request = req]
     ELSE conns' = [conns EXCEPT ![c].pending = @ - 1, ![c].st = "decoded"]
  /\ UNCHANGED <<listening, tools>>

\* the response of handle_client's outer except
ServerErrorNoMessage(e) == [status |-> "error", error |-> <<"Server error: ", e>>]

ServerError(e) == [status |-> "error", message |-> <<"Server error: ", e>>]

\* handle_client, receive loop: the peer closes first; recv returns b'',
\* `request` is unbound and the outer except answers
PeerCloses(c) ==
  /\ conns[c].st = "reading"
  /\ conns[c].pending = 0
  /\ conns[c].peer = "closed"
  /\ \E delivered \in {0, 1} :      \* sendall to a closed peer may raise: pass
       conns' = [conns EXCEPT ![c].st = "closed",
                              ![c].sent = delivered,
                              ![c].response = ServerError("UnboundLocalError")]
  /\ UNCHANGED <<listening, tools>>

\* the handler handle_client invokes for a decoded request, if any
HandlerCalled(request) ==
  IF Get(request, "command", None) \in DOMAIN tools
  THEN request.command ELSE None

\* handle_client, "Process request" .. "Send response", and the finally: close
Process(c) ==
  /\ conns[c].st = "decoded"
  /\ IF conns[c].wire = "notdict"
     THEN conns' = [conns EXCEPT ![c].st = "closed",
                                 ![c].sent = 1,
                                 ![c].response = ServerError("AttributeError")]
     ELSE \E es \in ServerBackends :
            conns' = [conns EXCEPT ![c].st = "closed",
                                   ![c].es = es,
                                   ![c].called = HandlerCalled(conns[c].request),
                                   ![c].sent = 1,
                                   ![c].response = Dispatch(conns[c].request, es)]
  /\ UNCHANGED <<listening, tools>>

\* the peer reads the response and the connection's slot is reused
Release(c) ==
  /\ conns[c].st = "closed"
  /\ conns' = [conns EXCEPT ![c] = FreeConn]
  /\ UNCHANGED <<listening, tools>>

\* MCPServer.run: KeyboardInterrupt leaves the accept loop
Shutdown ==
  /\ listening
  /\ listening' = FALSE
  /\ UNCHANGED <<conns, tools>>

\* the handler of a processed request met a failure: the backend call raised
\* inside it, or the call itself raised
CallsBackend(request) ==
  /\ request.command \in {"health", "indices", "search", "document", "mapping"}
  /\ DOMAIN request.params \subseteq HandlerSignature[request.command].accepts
  /\ HandlerSignature[request.command].required \subseteq DOMAIN request.params
  /\ ~ (request.command \in {"search", "mapping"} /\ Falsy(request.params["index"]))
  /\ ~ (request.command = "document"
        /\ (Falsy(request.params["index"]) \/ Falsy(request.params["doc_id"])))

HandlerFailed(request, es) ==
  /\ request.command \in DOMAIN register_tools
  /\ \/ ~ (DOMAIN request.params \subseteq HandlerSignature[request.command].accepts
           /\ HandlerSignature[request.command].required \subseteq DOMAIN request.params)
     \/ CallsBackend(request) /\ ~ es.up

\* ------------------------------------------------------------------ client
\* MCPClient.send_command (the agent's and the command-line client's are the
\* same code): socket(), then try: connect, sendall, receive loop, return;
\* except Exception: return the synthesized error; finally: close
ClientErrorOf(e) == [status |-> "error", message |-> <<"Client error: ", e>>]

\* the except clause: which exceptions it turns into a returned response
HandleOSErrorOnly(e) ==
  IF e = "UnboundLocalError"
  THEN [result |-> NoResponse, raised |-> TRUE]
  ELSE [result |-> ClientErrorOf(e), raised |-> FALSE]

Handle(e) == [result |-> ClientErrorOf(e), raised |-> FALSE]

\* how the byte stream of the response ends after the chunks that arrive
StreamEnds == {"eof", "reset", "hang"}

NoCall ==
  [st |-> "idle", request |-> EmptyDict, sock |-> "none", attempts |-> 0,
   reply |-> NoResponse, pending |-> 0, whole |-> FALSE, ends |-> "none",
   fault |-> "none", result |-> NoResponse, raised |-> FALSE, calls |-> 0]

ClientInit == call = NoCall

\* the responses the server gives to a request
ServerReplies(request) == {Dispatch(request, es) : es \in ServerBackends}

\* send_command is entered: the request dict is built, the socket created
BeginCall ==
  /\ call.st \in {"idle", "returned"}
  /\ call.calls < MaxCalls
  /\ \E req \in Requests :
       call' = [NoCall EXCEPT !.st = "connect", !.request = req, !.sock = "open",
                              !.calls = call.calls + 1]

\* the control state after the try block raised e
Raised(e) ==
  [call EXCEPT !.st = "finally", !.fault = e,
               !.result = Handle(e).result, !.raised = Handle(e).raised]

\* client_socket.connect: succeeds or is refused
Connect ==
  /\ call.st = "connect"
  /\ \/ call' = [call EXCEPT !.st = "send", !.attempts = @ + 1]
     \/ call' = [Raised("ConnectionRefusedError") EXCEPT !.attempts = @ + 1]

\* client_socket.sendall(pickle.dumps(request)); what the server then sends
\* back is fixed here: a number of chunks, whether they make up a whole
\* pickle, and how the stream ends
SendAll ==
  /\ call.st = "send"
  /\ \/ call' = Raised("BrokenPipeError")
     \/ \E reply \in ServerReplies(call.request), n \in 0..MaxChunks,
           w \in BOOLEAN, e \in StreamEnds :
          /\ w => n > 0
          /\ call' = [call EXCEPT !.st = "recv", !.reply = reply, !.pending = n,
                                  !.whole = w, !.ends = e]

\* the receive loop: recv returns a chunk, pickle.loads is tried; on success
\* break and return response, on failure continue
RecvChunk ==
  /\ call.st = "recv"
  /\ call.pending > 0
  /\ IF call.pending = 1 /\ call.whole
     THEN call' = [call EXCEPT !.pending = 0, !.st = "finally", !.result = call.reply]
     ELSE call' = [call EXCEPT !.pending = @ - 1]

\* the receive loop once no more chunks come: recv returns b'' (break, then
\* return response with response unbound) or raises; with the connection
\* left open recv blocks
RecvEnd ==
  /\ call.st = "recv"
  /\ call.pending = 0
  /\ call.ends \in {"eof", "reset"}
  /\ call' = IF call.ends = "eof"
             THEN Raised("UnboundLocalError")
             ELSE Raised("ConnectionResetError")

\* finally: client_socket.close(), and the call returns or raises
Finally ==
  /\ call.st = "finally"
  /\ call' = [call EXCEPT !.st = "returned", !.sock = "closed"]

\* ---------------------------------------------------------- pure functions
NoCalc == [fn |-> "none"]

SearchResponse(hits) ==
  [status |-> "ok", data |-> [hits |-> [hits |-> hits, total |-> Len(hits)]]]

CalcInputs ==
  {[fn |-> "summarize", done |-> FALSE, results |-> SearchResponse(HitList(0, n)),
    max_items |-> m] : n \in 0..MaxLen, m \in 1..MaxPageSize}
  \cup
  {[fn |-> "summarize", done |-> FALSE,
    results |-> [status |-> "ok", data |-> [status |-> "ok", data |-> EmptyDict]],
    max_items |-> m] : m \in 1..MaxPageSize}
  \cup
  {[fn |-> "page", done |-> FALSE, complete_results |-> HitList(0, n),
    page |-> k, page_size |-> ps] : n \in 0..MaxLen, k \in 1..MaxPage, ps \in 1..MaxPageSize}

PureInit == calc \in CalcInputs

ApplySummarize ==
  /\ calc.fn = "summarize" /\ ~ calc.done
  /\ calc' = [fn |-> "summarize", done |-> TRUE, results |-> calc.results,
              max_items |-> calc.max_items,
              out |-> summarize_search_results(calc.results, calc.max_items)]

ApplyPage ==
  /\ calc.fn = "page" /\ ~ calc.done
  /\ calc' = [fn |-> "page", done |-> TRUE, complete_results |-> calc.complete_results,
              page |-> calc.page, page_size |-> calc.page_size,
              out |-> get_page_from_results(calc.complete_results, calc.page,
                                            calc.page_size),
              served |-> PageResponse(calc.complete_results, calc.page)]

\* ---------------------------------------------------------- specifications
\* the agent's session
Init ==
  /\ AgentInit /\ conns = [c \in ConnIds |-> FreeConn] /\ listening = FALSE
  /\ calc = NoCalc /\ call = NoCall /\ tools = register_tools
Next == AgentNext
Spec == Init /\ [][Next]_vars

\* the server alone
AgentIdle ==
  UNCHANGED <<query, mcp_command, mcp_params, response, answer, memory, context,
              task_list, current_task, task_status, pc, planned, ran, last_step, calc, call>>
ServerSpecInit == AgentInit /\ ServerInit /\ calc = NoCalc /\ call = NoCall
ServerNext ==
  \/ \E c \in ConnIds : Accept(c) /\ AgentIdle
  \/ \E c \in ConnIds : Receive(c) /\ AgentIdle
  \/ \E c \in ConnIds : PeerCloses(c) /\ AgentIdle
  \/ \E c \in ConnIds : Process(c) /\ AgentIdle
  \/ \E c \in ConnIds : Release(c) /\ AgentIdle
  \/ Shutdown /\ AgentIdle
ServerSpec == ServerSpecInit /\ [][ServerNext]_vars

\* the client alone
AgentIdleButCall ==
  UNCHANGED <<query, mcp_command, mcp_params, response, answer, memory, context,
              task_list, current_task, task_status, pc, planned, ran, last_step,
              conns, listening, calc, tools>>
ClientSpecInit ==
  /\ AgentInit /\ conns = [c \in ConnIds |-> FreeConn] /\ listening = FALSE
  /\ calc = NoCalc /\ ClientInit /\ tools = register_tools
ClientNext ==
  \/ BeginCall /\ AgentIdleButCall
  \/ Connect /\ AgentIdleButCall
  \/ SendAll /\ AgentIdleButCall
  \/ RecvChunk /\ AgentIdleButCall
  \/ RecvEnd /\ AgentIdleButCall
  \/ Finally /\ AgentIdleButCall
ClientSpec == ClientSpecInit /\ [][ClientNext]_vars

\* calls of the pure functions
AgentIdleButCalc ==
  UNCHANGED <<query, mcp_command, mcp_params, response, answer, memory, context,
              task_list, current_task, task_status, pc, planned, ran, last_step,
              conns, listening, call, tools>>
PureSpecInit ==
  /\ AgentInit /\ conns = [c \in ConnIds |-> FreeConn] /\ listening = FALSE
  /\ PureInit /\ call = NoCall /\ tools = register_tools
PureNext ==
  \/ ApplySummarize /\ AgentIdleButCalc
  \/ ApplyPage /\ AgentIdleButCalc
PureSpec == PureSpecInit /\ [][PureNext]_vars

\* ------------------------------------------------------------------ claims

\* C1: a plan of n >= 1 tasks runs exactly n Analyze -> Execute -> Format
\* cycles, current_task taking the planned tasks one by one in plan order;
\* task_status becomes need_feedback only after the last of them, and
\* HumanFeedback is never reached with tasks left in task_list.
C1_PlanRunsEveryTask ==
  /\ pc = "human_feedback" => task_list = <<>>
  /\ Len(planned) >= 1 =>
       /\ Len(ran) <= Len(planned)
       /\ ran = SubSeq(planned, 1, Len(ran))
       /\ pc \in {"analyze", "execute", "format"} =>
            /\ Len(ran) < Len(planned)
            /\ current_task = planned[Len(ran) + 1]
            /\ task_list = SubSeq(planned, Len(ran) + 2, Len(planned))
       /\ (task_status = "need_feedback" \/ pc = "human_feedback") => ran = planned

C1_Witness ==
  /\ task_status = "need_feedback" /\ pc = "human_feedback"
  /\ Len(planned) = 2 /\ ran = planned /\ planned[1] # planned[2]

\* C2: the step after a routing point depends on task_status alone, by the
\* table planning -> Plan, executing -> Analyze, need_feedback ->
\* HumanFeedback, continuing (the code's "continue") -> Plan, done -> halt;
\* task_status holds no other value; within a cycle Execute runs only right
\* after Analyze and Format only right after Execute.
StatusValues == {"planning", "executing", "need_feedback", "continue", "done"}
RoutingTable ==
  [st \in StatusValues |->
     CASE st = "planning" -> "plan"
       [] st = "executing" -> "analyze"
       [] st = "need_feedback" -> "human_feedback"
       [] st = "continue" -> "plan"
       [] OTHER -> "END"]

C2_RoutingByStatus ==
  [][/\ task_status \in StatusValues /\ task_status' \in StatusValues
     /\ pc = "route" => pc' = RoutingTable[task_status]
     /\ pc = "analyze" => pc' \in {"execute", "crashed"}
     /\ pc = "execute" => pc' = "format"
     /\ pc = "format" => pc' = "route"
     /\ pc' = "execute" => pc = "analyze"
     /\ pc' = "format" => pc = "execute"]_vars

C2_Witness == pc = "human_feedback" /\ last_step.node = "route" /\ Len(memory) = 2

\* C3: at HumanFeedback an affirmative answer sets task_status = done and the
\* orchestrator halts, no further Plan/Analyze/Execute/Format step running
\* for that query; any other answer replaces query, sets the continuing
\* status and re-enters Plan; HumanFeedback leaves memory and context alone.
C3_AffirmativeHalts ==
  /\ [](~ (pc = "plan" /\ task_status = "done"))
  /\ [][/\ pc = "human_feedback" =>
             /\ memory' = memory /\ context' = context
             /\ task_status' \in {"done", "continue"}
             /\ task_status' = "done" => query' = query
        /\ (pc = "route" /\ task_status = "done") => pc' = "END"
        /\ (pc = "route" /\ task_status = "continue") => pc' = "plan"]_vars

\* C4: when Plan obtains an empty task list, task_status is done and the
\* orchestrator halts: no Analyze, Execute or Format step runs for that plan
\* (and so no turn is appended to memory).
C4_EmptyPlanHalts ==
  planned = <<>> => last_step.node \notin {"analyze", "execute", "format"}

\* C5: Analyze sets the command "page" with {page: current_page + 1} without
\* the reasoning step exactly when current_task indicates pagination and a
\* last_search entry is in context; a pagination task without a cached
\* search goes through the reasoning step like any other task.
C5_ShortCircuitIffCached ==
  [][pc = "analyze" =>
       LET asked == IndicatesPagination(current_task)
           cached == Has(context, "last_search")
           shortcut == /\ ~ last_step'.llm
                       /\ mcp_command' = "page"
                       /\ cached
                       /\ mcp_params' = [page |-> context["last_search"].current_page + 1]
                       /\ pc' = "execute"
       IN /\ shortcut <=> (asked /\ cached)
          /\ (asked /\ ~ cached) => last_step'.llm]_vars

C5_Witness ==
  /\ last_step.node = "analyze" /\ ~ last_step.llm
  /\ mcp_command = "page" /\ mcp_params = [page |-> 2]
  /\ current_task = TaskMore

\* C6: whenever Execute runs with the command "page" and a cache entry in
\* context, the page is sliced from the cached complete_results and the
\* transport client is not called.
C6_PageServedLocally ==
  [][(pc = "execute" /\ mcp_command = "page" /\ Has(context, "last_search")) =>
       /\ ~ last_step'.remote
       /\ response' = PageResponse(context["last_search"].complete_results,
                                   mcp_params["page"])]_vars

\* C7: after every successful search of a planned task (an ok reply
\* carrying a hit list) the last_search entry holds exactly that search's hit list with
\* current_page = 1, whatever entry was there before and however few hits
\* the search returned.
C7_CacheHoldsLatestSearch ==
  [][(/\ pc = "execute" /\ mcp_command = "search" /\ last_step'.remote
      /\ Len(planned) >= 1
      /\ response'.status = "ok" /\ Has(response'.data, "hits")) =>
       /\ Has(context', "last_search")
       /\ context'["last_search"].current_page = 1
       /\ context'["last_search"].complete_results =
            IF Has(response'.data, "complete_results")
            THEN response'.data.complete_results
            ELSE response'.data.hits.hits]_vars

\* C8: for a hit list of length H and max_items m >= 1, summarizing returns
\* the response unchanged when H <= m; otherwise it shows the first m hits,
\* keeps all H in complete_results and attaches the summary total_hits = H,
\* shown_hits = m, omitted_hits = H - m, available_pages = ceil(H / m),
\* current_page = 1.
CeilDiv(a, b) == CHOOSE q \in 0..a : q * b >= a /\ (q - 1) * b < a

C8_Summarization ==
  (calc.fn = "summarize" /\ calc.done /\ Has(calc.results.data, "hits")) =>
    LET all == calc.results.data.hits.hits
        H == Len(all)
        m == calc.max_items
    IN IF H <= m
       THEN calc.out = calc.results
       ELSE /\ calc.out.data.hits.hits = [i \in 1..m |-> all[i]]
            /\ calc.out.data.complete_results = all
            /\ Len(calc.out.data.complete_results) = H
            /\ calc.out.data.summary =
                 [total_hits |-> H, shown_hits |-> m, omitted_hits |-> H - m,
                  available_pages |-> CeilDiv(H, m), current_page |-> 1]

C8_Witness ==
  /\ calc.fn = "summarize" /\ calc.done /\ Has(calc.results.data, "hits")
  /\ Len(calc.results.data.hits.hits) = 7 /\ calc.max_items = 3
  /\ calc.out.data.summary.available_pages = 3

\* C9: for a cached list of length R, page size P >= 1 and page k >= 1 the
\* page served is complete_results[(k-1)P : kP] clipped to the list, and a
\* page past the last one is an empty hit list in a status=ok response.
ClippedSlice(lst, k, P) ==
  LET first == (k - 1) * P
      count == Max(0, Min(Len(lst), k * P) - first)
  IN [i \in 1..count |-> lst[first + i]]

C9_PageSlice ==
  (calc.fn = "page" /\ calc.done) =>
    /\ calc.out = ClippedSlice(calc.complete_results, calc.page, calc.page_size)
    /\ calc.served.status = "ok"
    /\ calc.served.data.hits.hits =
         ClippedSlice(calc.complete_results, calc.page, DefaultPageSize)
    /\ (calc.page - 1) * calc.page_size >= Len(calc.complete_results) => calc.out = <<>>
    /\ (calc.page - 1) * DefaultPageSize >= Len(calc.complete_results) =>
         calc.served.data.hits.hits = <<>>

C9_Witness ==
  /\ calc.fn = "page" /\ calc.done
  /\ Len(calc.complete_results) = 7 /\ calc.page = 2
  /\ calc.served.data.hits.hits = <<6, 7>>
  /\ calc.page_size = 3 /\ calc.out = <<4, 5, 6>>

\* C10: a failure inside a registered handler (the backend unreachable, a
\* call that raises) reaches the client as a response with status = error
\* and a message, never status = ok, and the server keeps listening.
C10_HandlerFailureIsError ==
  /\ [](\A c \in ConnIds :
          (conns[c].st = "closed" /\ conns[c].wire = "complete"
           /\ HandlerFailed(conns[c].request, conns[c].es)) =>
            /\ conns[c].response.status = "error"
            /\ Has(conns[c].response, "message"))
  /\ [][(\E c \in ConnIds : conns[c].st = "decoded" /\ conns'[c].st = "closed") =>
          listening' = listening]_vars

\* a step in which handle_client processes the decoded request of connection c
ProcessStep(c) ==
  conns[c].st = "decoded" /\ conns'[c].st = "closed" /\ conns[c].wire = "complete"

\* C11: a search or mapping request without an index, or with an empty one,
\* is answered with status = error and "Index name is required"; a document
\* request lacking index or id with status = error and "Both index and id
\* are required" (the response as sent to the client).
C11_MissingIndexIsError ==
  [][\A c \in ConnIds : ProcessStep(c) =>
       LET r == conns[c].request
           p == r.params
       IN /\ (r.command \in {"search", "mapping"}
              /\ (~ Has(p, "index") \/ Falsy(p["index"]))) =>
               conns'[c].response =
                 [status |-> "error", message |-> <<"Index name is required">>]
          /\ (r.command = "document"
              /\ (~ Has(p, "index") \/ ~ Has(p, "id"))) =>
               conns'[c].response =
                 [status |-> "error", message |-> <<"Both index and id are required">>]]_vars

\* C12: a registered command invoked with valid parameters under the names
\* the registry advertises has its handler invoked and is answered with
\* status = ok and the handler's result.
AdvertisedRequired(command) ==
  CASE command \in {"search", "mapping"} -> {"index"}
    [] command = "document" -> {"index", "id"}
    [] OTHER -> {}

ValidAsAdvertised(r) ==
  /\ r.command \in DOMAIN register_tools
  /\ DOMAIN r.params \subseteq DOMAIN register_tools[r.command].parameters
  /\ AdvertisedRequired(r.command) \subseteq DOMAIN r.params
  /\ \A k \in AdvertisedRequired(r.command) : ~ Falsy(r.params[k])

C12_AdvertisedCallIsOk ==
  [][\A c \in ConnIds : (ProcessStep(c) /\ ValidAsAdvertised(conns[c].request)) =>
       /\ conns'[c].called = conns[c].request.command
       /\ conns'[c].response.status = "ok"
       /\ Has(conns'[c].response, "data")]_vars

\* C13: a command that is not registered is answered with status = error,
\* the message "Unknown command: <command>" and available_tools = all
\* registered names; no handler is invoked and the server keeps listening.
RegisteredNames == {"health", "indices", "search", "document", "mapping", "list_tools"}

C13_UnknownCommand ==
  [][\A c \in ConnIds :
       (ProcessStep(c) /\ conns[c].request.command \notin RegisteredNames) =>
         /\ conns'[c].response =
              [status |-> "error",
               message |-> <<"Unknown command: ", conns[c].request.command>>,
               available_tools |-> RegisteredNames]
         /\ conns'[c].called = None
         /\ conns'[c].sent = 1
         /\ listening' = listening]_vars

C13_Witness ==
  \E c \in ConnIds :
    /\ conns[c].st = "closed" /\ conns[c].wire = "complete"
    /\ conns[c].request.command = "foo"
    /\ conns[c].response.status = "error"
    /\ conns[c].called = None
    /\ conns[c].response.available_tools = RegisteredNames
    /\ listening

\* C14: every response the server produces and every response the client
\* synthesizes has status ok or error, carries data exactly when the status
\* is ok and a message exactly when it is error.
WellFormed(r) ==
  /\ Has(r, "status") /\ r.status \in {"ok", "error"}
  /\ Has(r, "data") <=> r.status = "ok"
  /\ Has(r, "message") <=> r.status = "error"

C14_ResponseShape ==
  /\ \A c \in ConnIds : conns[c].st = "closed" => WellFormed(conns[c].response)
  /\ WellFormed(ClientError)

C14_Witness ==
  /\ \E c \in ConnIds : /\ conns[c].st = "closed" /\ conns[c].wire = "complete"
                        /\ conns[c].response.status = "ok"
  /\ \E c \in ConnIds : /\ conns[c].st = "closed" /\ conns[c].wire # "complete"
                        /\ conns[c].response.status = "error"

\* the server and the peer of connection c both wait in recv: the bytes
\* received so far do not decode and the peer sends no more
BothBlocked(c) ==
  /\ conns[c].st = "reading" /\ conns[c].pending = 0
  /\ conns[c].peer = "waiting"
  /\ ~ Unpickles(conns[c].wire, 0)

\* C15: each accepted connection carries one request and one response and
\* is then closed by the server, on every path (known or unknown command,
\* handler exception, undecodable or truncated request).
C15_OneRequestOneResponse ==
  \A c \in ConnIds :
    /\ conns[c].sent <= 1
    /\ (conns[c].st = "closed" /\ conns[c].peer = "waiting") => conns[c].sent = 1
    /\ conns[c].st \in {"reading", "decoded"} =>
         (conns[c].sent = 0
          /\ (conns[c].st = "decoded" \/ conns[c].pending > 0 \/ conns[c].peer = "closed"))

\* C17: a receiver never waits indefinitely on bytes that fail to decode
\* (messages carry a length prefix), so client and server are never both
\* blocked waiting on each other.
C17_NoMutualWait ==
  \A c \in ConnIds : ~ BothBlocked(c)

\* C16: a send_command call never raises to its caller; on a refused or
\* reset connection, or one closed before a whole response arrived, it
\* returns a synthesized status = error response; it makes one connection
\* attempt per call (no retry) and closes its socket on every path.
C16_ClientNeverRaises ==
  /\ ~ call.raised
  /\ call.attempts <= 1
  /\ call.sock = "open" <=> call.st \in {"connect", "send", "recv", "finally"}
  /\ call.st = "returned" =>
       /\ call.sock = "closed"
       /\ call.result # NoResponse
       /\ call.fault # "none" => call.result = ClientErrorOf(call.fault)
       /\ call.fault = "none" => call.result = call.reply

C16_Witness ==
  /\ call.st = "returned" /\ call.sock = "closed" /\ call.attempts = 1
  /\ call.fault = "UnboundLocalError"
  /\ call.result.status = "error"

\* C18: reasoning output that cannot be parsed, in Plan or in Analyze, is
\* caught and turned into a non-fatal answer: the workflow goes on (to
\* Format and need_feedback) and the session continues.
C18_ParseFailureNotFatal ==
  [][(pc \in {"plan", "analyze"}) => (pc' # "crashed")]_vars

\* C19: HumanFeedback presents the latest answer to the user before it asks
\* whether the result is satisfactory.
C19_AnswerBeforeConfirmation ==
  [][last_step'.node = "human_feedback" =>
       (/\ last_step'.console # <<>>
        /\ last_step'.console[1] = "print answer")]_vars

\* C20: every turn of the session starts by reading one line from the user
\* (exit, quit and bye end the session); after a query has been answered and
\* confirmed the user is prompted again and can exit.
C20_TurnReadsLine ==
  [][last_step'.node = "session" =>
       (/\ last_step'.console = <<"input">>
        /\ pc' \in {"exited", "plan"})]_vars

\* what list_tools is to return for a registered name
Descriptor(name) ==
  [description |-> register_tools[name].description,
   parameters |-> register_tools[name].parameters]

\* no handler appears in response r, at the top or inside its data
NoHandlerIn(r) ==
  /\ ~ Has(r, "handler")
  /\ Has(r, "data") =>
       /\ ~ Has(r.data, "handler")
       /\ Has(r.data, "available_tools") =>
            \A name \in DOMAIN r.data.available_tools :
              ~ Has(r.data.available_tools[name], "handler")

\* C21: list_tools returns, for every registered name, exactly its
\* description and parameters; no response carries a handler; and the
\* registry (names and descriptors) is never changed by serving requests.
C21_ListToolsAndRegistry ==
  /\ [](/\ tools = register_tools
        /\ \A c \in ConnIds :
             conns[c].st = "closed" =>
               /\ NoHandlerIn(conns[c].response)
               /\ (conns[c].wire = "complete"
                   /\ conns[c].request = [command |-> "list_tools", params |-> EmptyDict]) =>
                    conns[c].response =
                      [status |-> "ok",
                       data |-> [available_tools |->
                                   [name \in RegisteredNames |-> Descriptor(name)]]])
  /\ [][tools' = tools]_vars

C21_Witness ==
  \E c \in ConnIds :
    /\ conns[c].st = "closed" /\ conns[c].wire = "complete"
    /\ conns[c].request.command = "list_tools"
    /\ conns[c].response.status = "ok"
    /\ DOMAIN conns[c].response.data.available_tools = RegisteredNames
    /\ \E d \in ConnIds : d # c /\ conns[d].st = "closed" /\ conns[d].called = "search"

\* C22: connections open at the same time are served independently, each
\* in its own thread and each answered for its own request; a handler that
\* fails or has not returned yet, or a peer that never completes its
\* request, on one connection never keeps the server from accepting and
\* answering on another.
C22_ConnectionsIndependent ==
  /\ [](\A c \in ConnIds :
          /\ (listening /\ conns[c].st = "free") => ENABLED Accept(c)
          /\ (conns[c].st = "reading" /\ conns[c].pending > 0) => ENABLED Receive(c)
          /\ conns[c].st = "decoded" => ENABLED Process(c)
          /\ (conns[c].st = "closed" /\ conns[c].wire = "complete") =>
               conns[c].response = Dispatch(conns[c].request, conns[c].es))
  /\ [][\A c, d \in ConnIds :
          (c # d /\ conns'[c] # conns[c]) => conns'[d] = conns[d]]_vars

C22_Witness ==
  \E c, d \in ConnIds :
    /\ c # d
    /\ BothBlocked(d)
    /\ conns[c].st = "closed" /\ conns[c].wire = "complete" /\ conns[c].sent = 1
    /\ HandlerFailed(conns[c].request, conns[c].es)

\* the input of the turn Format is to save: the query, tagged with the
\* current task when one is set
TaggedQuery(task, q) ==
  IF task = NoneText \/ task = EmptyText
  THEN q
  ELSE <<"[">> \o task \o <<"]", " ">> \o q

\* C23: conversation memory is append-only: every Format step appends exactly
\* one turn, whose output is the answer just produced and whose input is the
\* query (tagged with current_task when one is set); no other step writes
\* memory, and no turn is removed or reordered, continuing loops included.
C23_MemoryAppendOnly ==
  [][IF pc = "format"
     THEN /\ memory' = Append(memory, [input |-> TaggedQuery(current_task, query),
                                       output |-> answer'])
          /\ answer' \in Answers
     ELSE memory' = memory]_vars

C23_Witness ==
  /\ Len(memory) = 2 /\ last_step.node = "format"
  /\ memory[1].input # memory[2].input
  /\ memory[2].input[1] = "["
  /\ memory[2].output = answer
  /\ query # LineQuery /\ query # Strip(LineQuery)

\* the context key Execute may write for a command
ContextKeyOf(command) ==
  CASE command = "indices" -> "last_indices"
    [] command = "search" -> "last_search"
    [] command = "document" -> "last_document"
    [] OTHER -> "none"

\* C24: Execute changes context only when the response has status = ok and
\* the command is indices (last_indices), search (the cache entry) or
\* document (last_document, with the request's index and id); for any other
\* command, for a status = error response and on the cached pagination path
\* context is left unchanged.
C24_ExecuteContextFrame ==
  [][pc = "execute" =>
       LET ok == last_step'.remote /\ response'.status = "ok"
           key == ContextKeyOf(mcp_command)
       IN /\ context' # context => (ok /\ key # "none")
          /\ DOMAIN context \subseteq DOMAIN context'
          /\ \A k \in DOMAIN context' :
               k # key => (k \in DOMAIN context /\ context'[k] = context[k])
          /\ (ok /\ mcp_command = "indices") =>
               (Has(context', "last_indices") /\ context'["last_indices"] = response'.data)
          /\ (ok /\ mcp_command = "document") =>
               (/\ Has(context', "last_document")
                /\ context'["last_document"] =
                     [index |-> Get(mcp_params, "index", None),
                      id |-> Get(mcp_params, "id", None),
                      content |-> response'.data])
          /\ (ok /\ mcp_command = "search" /\ Has(response'.data, "complete_results")) =>
               (/\ Has(context', "last_search")
                /\ context'["last_search"] =
                     [index |-> Get(mcp_params, "index", None),
                      query |-> Get(mcp_params, "query", None),
                      complete_results |-> response'.data.complete_results,
                      current_page |-> 1])]_vars

C24_Witness ==
  /\ last_step.node = "execute" /\ last_step.remote
  /\ mcp_command = "document" /\ response.status = "ok"
  /\ Has(context, "last_document") /\ context["last_document"].id = "7"
  /\ Has(context, "last_search")

\* the second page of five: complete_results[5:10]
SecondPage(complete_results) ==
  [i \in 1..Max(0, Min(Len(complete_results), 10) - 5) |-> complete_results[5 + i]]

\* C25: the cache entry's current_page is 1 in every reachable state; no
\* step advances it, so every pagination short-circuit asks for page 2 and
\* every pagination task after a search returns the same slice
\* complete_results[5:10].
C25_PageStuckAtTwo ==
  /\ [](Has(context, "last_search") => context["last_search"].current_page = 1)
  /\ [][(pc = "analyze" /\ pc' = "execute" /\ ~ last_step'.llm) =>
          (mcp_command' = "page" /\ mcp_params' = [page |-> 2])]_vars
  /\ [][(pc = "execute" /\ mcp_command = "page" /\ Has(context, "last_search")) =>
          (/\ response'.status = "ok"
           /\ response'.data.hits.hits =
                SecondPage(context["last_search"].complete_results)
           /\ context' = context)]_vars

====
